---- MODULE Spec2Model ----
(***************************************************************************)
(* Model of backend/src/main.rs of the cricket ball classifier backend:    *)
(* the two request handlers predict_image_route and training_route, the    *)
(* multipart decoders they call, the scratch file and training_data files  *)
(* they touch, the external predict.py process, and the text parser        *)
(* parse_prediction_output.                                                *)
(*                                                                         *)
(* Texts (stdout, stderr, labels) are sequences of one-character strings,  *)
(* so that contains/find/slice/parse work on characters as in the source.  *)
(* Image data are sequences of small integers (bytes).                     *)
(***************************************************************************)
EXTENDS Integers, Sequences, FiniteSets, TLC

VARIABLES
    now,        \* the wall clock read by Utc::now(), in microseconds
    input,      \* per request: route, multipart payload, behaviour of predict.py
    h,          \* per request: the handler's position and local variables
    tmp,        \* the scratch files under /tmp: path -> contents
    dirs,       \* the directories that exist under training_data
    files,      \* the image files under training_data: path -> contents
    log,        \* contents of training_data/training_log.jsonl
    obs         \* per request: what happened (stages run, what the process read, ...)

vars == <<now, input, h, tmp, dirs, files, log, obs>>

(***************************************************************************)
(* Bounds of the model.                                                    *)
(***************************************************************************)
NReq == 2           \* requests handled concurrently
MaxTicks == 1       \* steps of the clock
MaxParts == 2       \* parts of a multipart payload (single-request runs)
MaxLines == 2       \* lines of stdout of predict.py (single-request runs)

UsPerMs == 1000     \* timestamp_millis and %3f: microseconds per millisecond
MsPerSec == 1000    \* %S and %3f: milliseconds per second

Req == 1..NReq

(***************************************************************************)
(* Text literals of the source and of the modelled inputs.                 *)
(***************************************************************************)
T_FinalPrediction == <<"F","i","n","a","l"," ","P","r","e","d","i","c","t","i","o","n",":">>
T_MATCH_READY == <<"M","A","T","C","H","_","R","E","A","D","Y">>
T_NOT_MATCH_READY == <<"N","O","T","_">> \o T_MATCH_READY
T_Confidence == <<"C","o","n","f","i","d","e","n","c","e",":">>
T_Confidence_sp == T_Confidence \o <<" ">>
T_match_ready == <<"m","a","t","c","h","_","r","e","a","d","y">>
T_not_match_ready == <<"n","o","t","_">> \o T_match_ready
T_match_ready_c == T_match_ready \o <<":">>
T_match_ready_c_sp == T_match_ready_c \o <<" ">>
T_not_match_ready_c == T_not_match_ready \o <<":">>
T_not_match_ready_c_sp == T_not_match_ready_c \o <<" ">>
T_Image == <<"I","m","a","g","e",":">>
T_Image_sp == T_Image \o <<" ">>
T_Prediction_sp == <<"P","r","e","d","i","c","t","i","o","n",":"," ">>
T_uploaded_image == <<"u","p","l","o","a","d","e","d","_","i","m","a","g","e">>
T_sideways == <<"s","i","d","e","w","a","y","s">>
T_boom == <<"b","o","o","m">>
NL == "\n"
CR == "\r"
InvalidByte == "0xFF"       \* a byte that is not valid UTF-8
ReplacementChar == "U+FFFD"

(***************************************************************************)
(* str operations used by the source, on sequences of characters.          *)
(* Indices are 0-based as in Rust.  An Option<usize> is a record: `some`   *)
(* tells Some from None and `at` is the index.                             *)
(***************************************************************************)
\* String::from_utf8_lossy: invalid bytes become U+FFFD
from_utf8_lossy(bytes) ==
    [i \in 1..Len(bytes) |-> IF bytes[i] = InvalidByte THEN ReplacementChar ELSE bytes[i]]

\* &s[from..]
SliceFrom(s, from) == SubSeq(s, from + 1, Len(s))

\* &s[..to]
SliceTo(s, to) == SubSeq(s, 1, to)

\* str::find(pat): byte offset of the first match
Find(s, pat) ==
    LET hits == {i \in 0..(Len(s) - Len(pat)) : SubSeq(s, i + 1, i + Len(pat)) = pat}
    IN  IF hits = {} THEN [some |-> FALSE, at |-> 0]
        ELSE [some |-> TRUE, at |-> CHOOSE i \in hits : \A j \in hits : i <= j]

\* str::contains(pat)
Contains(s, pat) == Find(s, pat).some

\* one line of str::lines(): a trailing "\r" is dropped
StripCR(line) ==
    IF Len(line) > 0 /\ line[Len(line)] = CR THEN SubSeq(line, 1, Len(line) - 1) ELSE line

\* str::lines(): split at "\n"; no empty last line after a final "\n"
RECURSIVE Lines(_)
Lines(s) ==
    IF s = <<>> THEN <<>>
    ELSE LET i == Find(s, <<NL>>)
         IN  IF ~i.some THEN <<StripCR(s)>>
             ELSE <<StripCR(SliceTo(s, i.at))>> \o Lines(SliceFrom(s, i.at + 1))

Digits == <<"0","1","2","3","4","5","6","7","8","9">>
IsDigit(c) == \E i \in 1..10 : Digits[i] = c
DigitVal(c) == (CHOOSE i \in 1..10 : Digits[i] = c) - 1

RECURSIVE DigitsVal(_)
DigitsVal(s) ==
    IF s = <<>> THEN 0 ELSE 10 * DigitsVal(SubSeq(s, 1, Len(s) - 1)) + DigitVal(s[Len(s)])

\* a decimal number m * 10^-e with the trailing zeros of the fraction dropped
RECURSIVE Normal(_, _, _)
Normal(neg, m, e) ==
    IF e > 0 /\ m % 10 = 0 THEN Normal(neg, m \div 10, e - 1)
    ELSE [neg |-> neg, m |-> m, e |-> e]

\* the f64 0.0 that the parser starts from
Zero == [neg |-> FALSE, m |-> 0, e |-> 0]

\* str::parse::<f64>(): [+-] digits [. digits], at least one digit, nothing else
\* around it (no blanks, no "%").  The exponent, "inf" and "nan" spellings that
\* f64 also reads do not occur in the modelled texts.
parse_f64(s) ==
    LET signed == Len(s) > 0 /\ s[1] \in {"+", "-"}
        body == IF signed THEN SliceFrom(s, 1) ELSE s
        dot == Find(body, <<".">>)
        int == IF dot.some THEN SliceTo(body, dot.at) ELSE body
        frac == IF dot.some THEN SliceFrom(body, dot.at + 1) ELSE <<>>
        wellFormed ==
            /\ Len(int) + Len(frac) > 0
            /\ \A i \in 1..Len(int) : IsDigit(int[i])
            /\ \A i \in 1..Len(frac) : IsDigit(frac[i])
    IN  IF wellFormed
        THEN [ok |-> TRUE,
              val |-> Normal(signed /\ s[1] = "-", DigitsVal(int \o frac), Len(frac))]
        ELSE [ok |-> FALSE, val |-> Zero]

(***************************************************************************)
(* parse_prediction_output (lines 290-354).                                *)
(***************************************************************************)
\* (mutant) the parser starts from a guess instead of "unknown"
ParserInitGuess ==
    [prediction |-> "match_ready", confidence |-> Zero, match_ready_prob |-> Zero,
     not_match_ready_prob |-> Zero, image_name |-> T_uploaded_image]

\* the locals of parse_prediction_output before the loop (lines 293-297)
ParserInit ==
    [prediction |-> "unknown", confidence |-> Zero, match_ready_prob |-> Zero,
     not_match_ready_prob |-> Zero, image_name |-> T_uploaded_image]

\* lines 309-316, 319-326, 329-336: the number between `key` and the next blank,
\* stored in the local `field` when there is such a number
ParseNumberAfter(st, line, key, field) ==
    LET start == Find(line, key)
    IN  IF ~start.some THEN st
        ELSE LET rest == SliceFrom(line, start.at + Len(key))
                 end == Find(rest, <<" ">>)
             IN  IF ~end.some THEN st
                 ELSE LET num == parse_f64(SliceTo(rest, end.at))
                      IN  IF num.ok THEN [st EXCEPT ![field] = num.val] ELSE st

\* lines 301-306: the label named on a "Final Prediction:" line
FinalPrediction(st, line) ==
    IF Contains(line, T_MATCH_READY) THEN [st EXCEPT !.prediction = "match_ready"]
    ELSE IF Contains(line, T_NOT_MATCH_READY)
         THEN [st EXCEPT !.prediction = "not_match_ready"]
         ELSE st

\* lines 339-346: the rest of the line after "Image: " (a line holds no "\n")
ImageName(st, line) ==
    LET start == Find(line, T_Image_sp)
    IN  IF ~start.some THEN st
        ELSE LET name_start == start.at + Len(T_Image_sp)
                 end == Find(SliceFrom(line, name_start), <<NL>>)
             IN  IF ~end.some
                 THEN [st EXCEPT !.image_name = SliceFrom(line, name_start)]
                 ELSE [st EXCEPT !.image_name = SliceTo(SliceFrom(line, name_start), end.at)]

\* lines 301-347: the body of the loop, one line
ParseLine(st, line) ==
    IF Contains(line, T_FinalPrediction) THEN FinalPrediction(st, line)
    ELSE IF Contains(line, T_Confidence)
         THEN ParseNumberAfter(st, line, T_Confidence_sp, "confidence")
    ELSE IF Contains(line, T_match_ready_c)
         THEN ParseNumberAfter(st, line, T_match_ready_c_sp, "match_ready_prob")
    ELSE IF Contains(line, T_not_match_ready_c)
         THEN ParseNumberAfter(st, line, T_not_match_ready_c_sp, "not_match_ready_prob")
    ELSE IF Contains(line, T_Image) THEN ImageName(st, line)
    ELSE st

\* (mutant) a field keeps the value of the first line that sets it
RECURSIVE ParseLinesFirstWins(_, _)
ParseLinesFirstWins(st, lines) ==
    IF lines = <<>> THEN st
    ELSE ParseLine(ParseLinesFirstWins(st, Tail(lines)), Head(lines))

\* lines 300-348: the loop over the lines, in order
RECURSIVE ParseLines(_, _)
ParseLines(st, lines) ==
    IF lines = <<>> THEN st ELSE ParseLines(ParseLine(st, Head(lines)), Tail(lines))

\* lines 290-354: the JSON object {"prediction": .., "confidence": ..}
parse_prediction_output(output) ==
    LET st == ParseLines(ParserInit, Lines(output))
    IN  [prediction |-> st.prediction, confidence |-> st.confidence]

(***************************************************************************)
(* HTTP responses.  A body is a tuple: the pieces of the format! string,   *)
(* or <<"json", object>> for a JSON body.                                  *)
(***************************************************************************)
Response(status, body) == [status |-> status, body |-> body]
NoResponse == Response(0, <<>>)
BadRequest(body) == Response(400, body)
InternalServerError(body) == Response(500, body)
Ok(json) == Response(200, <<"json", json>>)

(***************************************************************************)
(* Multipart payloads.  A payload is the sequence of items the stream      *)
(* yields: a field with a name and a sequence of chunks, or a framing      *)
(* error; a chunk is data or a read error.                                 *)
(***************************************************************************)
Field(name, chunks) == [ok |-> TRUE, name |-> name, chunks |-> chunks]
FrameError == [ok |-> FALSE, name |-> "", chunks |-> <<>>]
Chunk(data) == [ok |-> TRUE, data |-> data]
ChunkError == [ok |-> FALSE, data |-> <<>>]

\* lines 28-34, 38-44, 73-79: read the chunks of one field into a buffer
RECURSIVE ReadChunks(_, _)
ReadChunks(chunks, buf) ==
    IF chunks = <<>> THEN [ok |-> TRUE, data |-> buf]
    ELSE IF ~Head(chunks).ok THEN [ok |-> FALSE, data |-> buf]
    ELSE ReadChunks(Tail(chunks), buf \o Head(chunks).data)

ReadError == InternalServerError(<<"Read error: ", "e">>)
MultipartError == BadRequest(<<"Multipart error: ", "e">>)
UnexpectedField(name) == BadRequest(<<"Unexpected field: ", name>>)
NoImageData == BadRequest(<<"No image data received">>)

DecodeOk(image_bytes, label) ==
    [ok |-> TRUE, image_bytes |-> image_bytes, label |-> label, resp |-> NoResponse]
DecodeErr(resp) ==
    [ok |-> FALSE, image_bytes |-> <<>>, label |-> [some |-> FALSE, v |-> <<>>],
     resp |-> resp]

\* (mutant) the buffer is not checked
AnyBuffer(image_bytes, label) == DecodeOk(image_bytes, label)

\* lines 54-58 and 88-92: the check made once the stream is drained
NonEmptyOrError(image_bytes, label) ==
    IF image_bytes = <<>> THEN DecodeErr(NoImageData) ELSE DecodeOk(image_bytes, label)

\* lines 16-59: parse_multipart, from the items not yet read and the two buffers
RECURSIVE MultipartLoop(_, _, _)
MultipartLoop(payload, image_bytes, label) ==
    IF payload = <<>> THEN NonEmptyOrError(image_bytes, label)
    ELSE LET field == Head(payload)
         IN  IF ~field.ok THEN DecodeErr(MultipartError)
             ELSE IF field.name = "image"
             THEN LET r == ReadChunks(field.chunks, image_bytes)
                  IN  IF r.ok THEN MultipartLoop(Tail(payload), r.data, label)
                      ELSE DecodeErr(ReadError)
             ELSE IF field.name = "label"
             THEN LET r == ReadChunks(field.chunks, <<>>)
                  IN  IF r.ok
                      THEN MultipartLoop(Tail(payload), image_bytes,
                                         [some |-> TRUE, v |-> from_utf8_lossy(r.data)])
                      ELSE DecodeErr(ReadError)
             ELSE DecodeErr(UnexpectedField(field.name))

parse_multipart(payload) == MultipartLoop(payload, <<>>, [some |-> FALSE, v |-> <<>>])

\* lines 62-93: parse_multipart_predict, from the items not yet read and the buffer
RECURSIVE MultipartPredictLoop(_, _)
MultipartPredictLoop(payload, image_bytes) ==
    IF payload = <<>> THEN NonEmptyOrError(image_bytes, [some |-> FALSE, v |-> <<>>])
    ELSE LET field == Head(payload)
         IN  IF ~field.ok THEN DecodeErr(MultipartError)
             ELSE IF field.name = "image"
             THEN LET r == ReadChunks(field.chunks, image_bytes)
                  IN  IF r.ok THEN MultipartPredictLoop(Tail(payload), r.data)
                      ELSE DecodeErr(ReadError)
             ELSE DecodeErr(UnexpectedField(field.name))

\* (mutant) /predict decodes as /training does: a "label" part is read
DecodeAllowingLabel(payload) == parse_multipart(payload)

parse_multipart_predict(payload) == MultipartPredictLoop(payload, <<>>)

(***************************************************************************)
(* The clock and the values derived from it.                               *)
(***************************************************************************)
\* Utc::now().timestamp_millis() (lines 98, 208)
timestamp_millis(t) == t \div UsPerMs

\* Utc::now().format("%Y%m%d_%H%M%S_%3f") (line 141): the date and time down
\* to the second, and the milliseconds of that second
FormatTimestamp(t) ==
    <<timestamp_millis(t) \div MsPerSec, timestamp_millis(t) % MsPerSec>>

\* Utc::now().to_rfc3339() (line 156): the second and the full sub-second part
to_rfc3339(t) == <<t \div (UsPerMs * MsPerSec), t % (UsPerMs * MsPerSec)>>

(***************************************************************************)
(* Paths.  A path is the tuple of the pieces its format! string joins.     *)
(***************************************************************************)
\* line 225
TempPath(request_id) == <<"/tmp/cricket_ball_", request_id, ".jpg">>
\* line 130
training_dir == "training_data"
\* line 131
LabelDir(label) == <<training_dir, "/", label>>
\* line 142
Filename(timestamp, request_id) == <<"cricket_ball_", timestamp, "_", request_id, ".jpg">>
\* line 143
FilePath(label_dir, filename) == <<label_dir, "/", filename>>

(***************************************************************************)
(* Files.  A directory of files is a function from paths to contents.      *)
(***************************************************************************)
Exists(fs, path) == path \in DOMAIN fs

\* a file created or replaced with `contents`
Put(fs, path, contents) ==
    [p \in DOMAIN fs \cup {path} |-> IF p = path THEN contents ELSE fs[p]]

\* a file removed
Remove(fs, path) == [p \in DOMAIN fs \ {path} |-> fs[p]]

\* fs::write (lines 146, 228) is File::create followed by write_all.  When it
\* succeeds the file holds the bytes.  When it fails, either the file was not
\* opened and nothing changed, or it was created (and truncated) and holds only
\* a proper prefix of the bytes.
WriteOk(fs, path, bytes) == Put(fs, path, bytes)
WriteFailed(fs, path, bytes) ==
    {fs} \cup {Put(fs, path, SubSeq(bytes, 1, k)) : k \in 0..(Len(bytes) - 1)}

\* (mutant) the file is opened without append: the line is written at offset 0
OverwriteHead(contents, line) == line \o SubSeq(contents, Len(line) + 1, Len(contents))
\* (mutant) the file is rewritten with the line alone, as fs::write would
Rewrite(contents, line) == line

\* OpenOptions::new().create(true).append(true) and write_all (lines 168-175):
\* the line, far shorter than a block, goes to the end of the file in one write;
\* a failed open or write leaves the contents as they were
AppendLine(contents, line) == contents \o line

(***************************************************************************)
(* Requests.  input[r] is what request r brings: the route it is sent to,  *)
(* its multipart payload, and how predict.py behaves when run for it (the  *)
(* process is outside the program: spawn may fail; otherwise the process   *)
(* exits with a code and has written stdout and stderr).                   *)
(***************************************************************************)
Mock(spawn_ok, code, stdout, stderr) ==
    [spawn_ok |-> spawn_ok, code |-> code, stdout |-> stdout, stderr |-> stderr]
NoMock == Mock(FALSE, 0, <<>>, <<>>)
Input(route, payload, mock) == [route |-> route, payload |-> payload, mock |-> mock]
NoInput == Input("none", <<>>, NoMock)

\* the locals of a handler that has not started
Idle ==
    [pc |-> "idle", request_id |-> 0, image_bytes |-> <<>>, label |-> <<>>,
     timestamp |-> <<0, 0>>, output |-> [code |-> 0, stdout |-> <<>>, stderr |-> <<>>],
     resp |-> NoResponse]

NoObs ==
    [stages |-> <<>>,
     seen |-> [read |-> FALSE, found |-> FALSE, data |-> <<>>],
     rm_failed |-> FALSE, log_failed |-> FALSE]

\* requests are numbered in the order in which their handlers start
Arrives(r) == h[r].pc = "idle" /\ \A q \in Req : q < r => h[q].pc # "idle"

Stage(r, name) == [obs EXCEPT ![r].stages = Append(@, name)]
Ran(r, stage) == \E i \in 1..Len(obs[r].stages) : obs[r].stages[i] = stage
Finish(r, resp) == [h EXCEPT ![r].pc = "done", ![r].resp = resp]

(***************************************************************************)
(* predict_image_route (lines 207-287).                                    *)
(***************************************************************************)
\* line 208: the request id is the clock in milliseconds
PredictStart(r) ==
    /\ input[r].route = "/predict"
    /\ Arrives(r)
    /\ h' = [h EXCEPT ![r].pc = "decode", ![r].request_id = timestamp_millis(now)]
    /\ obs' = Stage(r, "start")
    /\ UNCHANGED <<now, input, tmp, dirs, files, log>>

\* lines 214-220
PredictDecode(r) ==
    /\ input[r].route = "/predict"
    /\ h[r].pc = "decode"
    /\ LET d == parse_multipart_predict(input[r].payload)
       IN  h' = IF d.ok THEN [h EXCEPT ![r].pc = "write", ![r].image_bytes = d.image_bytes]
                ELSE Finish(r, d.resp)
    /\ obs' = Stage(r, "decode")
    /\ UNCHANGED <<now, input, tmp, dirs, files, log>>

\* lines 225-232: the scratch file is written
WriteTempOk(r) ==
    /\ input[r].route = "/predict"
    /\ h[r].pc = "write"
    /\ tmp' = WriteOk(tmp, TempPath(h[r].request_id), h[r].image_bytes)
    /\ h' = [h EXCEPT ![r].pc = "spawn"]
    /\ obs' = Stage(r, "store")
    /\ UNCHANGED <<now, input, dirs, files, log>>

\* (mutant) the failed write is only logged and the handler goes on
WriteTempFailIgnored(r) ==
    /\ input[r].route = "/predict"
    /\ h[r].pc = "write"
    /\ tmp' \in WriteFailed(tmp, TempPath(h[r].request_id), h[r].image_bytes)
    /\ h' = [h EXCEPT ![r].pc = "spawn"]
    /\ obs' = Stage(r, "store")
    /\ UNCHANGED <<now, input, dirs, files, log>>

\* lines 228-232: the write fails and the handler returns
WriteTempFail(r) ==
    /\ input[r].route = "/predict"
    /\ h[r].pc = "write"
    /\ tmp' \in WriteFailed(tmp, TempPath(h[r].request_id), h[r].image_bytes)
    /\ h' = Finish(r, InternalServerError(<<"Failed to write temporary file: ", "e">>))
    /\ obs' = Stage(r, "store")
    /\ UNCHANGED <<now, input, dirs, files, log>>

\* lines 237-243: Command::output() starts the process
SpawnOk(r) ==
    /\ input[r].route = "/predict"
    /\ h[r].pc = "spawn"
    /\ input[r].mock.spawn_ok
    /\ h' = [h EXCEPT ![r].pc = "running"]
    /\ obs' = Stage(r, "invoke")
    /\ UNCHANGED <<now, input, tmp, dirs, files, log>>

\* (mutant) a process that cannot be started is started a second time
SpawnFailRetryOnce(r) ==
    /\ input[r].route = "/predict"
    /\ h[r].pc = "spawn"
    /\ ~input[r].mock.spawn_ok
    /\ h' = [h EXCEPT ![r].pc = IF Ran(r, "invoke") THEN "spawn_failed" ELSE "spawn"]
    /\ obs' = Stage(r, "invoke")
    /\ UNCHANGED <<now, input, tmp, dirs, files, log>>

\* lines 244-245: the process cannot be started
SpawnFail(r) ==
    /\ input[r].route = "/predict"
    /\ h[r].pc = "spawn"
    /\ ~input[r].mock.spawn_ok
    /\ h' = [h EXCEPT ![r].pc = "spawn_failed"]
    /\ obs' = Stage(r, "invoke")
    /\ UNCHANGED <<now, input, tmp, dirs, files, log>>

\* lines 237-243: predict.py reads the file at the path it was given and exits;
\* output() returns its exit code, stdout and stderr
ProcessExit(r) ==
    /\ input[r].route = "/predict"
    /\ h[r].pc = "running"
    /\ LET path == TempPath(h[r].request_id)
           m == input[r].mock
       IN  /\ obs' = [obs EXCEPT ![r].seen =
                        [read |-> TRUE, found |-> Exists(tmp, path),
                         data |-> IF Exists(tmp, path) THEN tmp[path] ELSE <<>>]]
           /\ h' = [h EXCEPT ![r].pc = "cleanup",
                              ![r].output = [code |-> m.code, stdout |-> m.stdout,
                                             stderr |-> m.stderr]]
    /\ UNCHANGED <<now, input, tmp, dirs, files, log>>

\* (mutant) the exit status is not looked at
HandleOutputIgnoringStatus(output) ==
    [resp |-> Ok(parse_prediction_output(from_utf8_lossy(output.stdout))),
     stages |-> <<"parse">>]

\* lines 259-287: the response made from the output of the process, and whether
\* parse_prediction_output was called for it
HandleOutput(output) ==
    IF output.code # 0
    THEN [resp |-> InternalServerError(<<"Prediction failed: ",
                                         from_utf8_lossy(output.stderr)>>),
          stages |-> <<>>]
    ELSE [resp |-> Ok(parse_prediction_output(from_utf8_lossy(output.stdout))),
          stages |-> <<"parse">>]

\* (mutant) a failed removal of the scratch file fails the request
CleanupOrFail(r) ==
    /\ input[r].route = "/predict"
    /\ h[r].pc = "cleanup"
    /\ LET path == TempPath(h[r].request_id)
           after == <<"discard">> \o HandleOutput(h[r].output).stages
       IN  \/ /\ Exists(tmp, path)
              /\ tmp' = Remove(tmp, path)
              /\ obs' = [obs EXCEPT ![r].stages = @ \o after]
              /\ h' = Finish(r, HandleOutput(h[r].output).resp)
           \/ /\ tmp' = tmp
              /\ obs' = [obs EXCEPT ![r].stages = @ \o <<"discard">>, ![r].rm_failed = TRUE]
              /\ h' = Finish(r, InternalServerError(<<"Failed to clean up temp file: ", "e">>))
    /\ UNCHANGED <<now, input, dirs, files, log>>

\* lines 254-287: the scratch file is removed, then the response is made
Cleanup(r) ==
    /\ input[r].route = "/predict"
    /\ h[r].pc = "cleanup"
    /\ LET path == TempPath(h[r].request_id)
           after == <<"discard">> \o HandleOutput(h[r].output).stages
       IN  \/ /\ Exists(tmp, path)
              /\ tmp' = Remove(tmp, path)
              /\ obs' = [obs EXCEPT ![r].stages = @ \o after]
           \/ /\ tmp' = tmp       \* remove_file fails: no such file, or refused
              /\ obs' = [obs EXCEPT ![r].stages = @ \o after, ![r].rm_failed = TRUE]
    /\ h' = Finish(r, HandleOutput(h[r].output).resp)
    /\ UNCHANGED <<now, input, dirs, files, log>>

\* lines 246-249: the scratch file is removed after a failed spawn
CleanupSpawnFailed(r) ==
    /\ input[r].route = "/predict"
    /\ h[r].pc = "spawn_failed"
    /\ LET path == TempPath(h[r].request_id)
       IN  \/ /\ Exists(tmp, path)
              /\ tmp' = Remove(tmp, path)
              /\ obs' = Stage(r, "discard")
           \/ /\ tmp' = tmp
              /\ obs' = [Stage(r, "discard") EXCEPT ![r].rm_failed = TRUE]
    /\ h' = Finish(r, InternalServerError(<<"Failed to execute prediction: ", "e">>))
    /\ UNCHANGED <<now, input, dirs, files, log>>

(***************************************************************************)
(* training_route (lines 97-203).                                          *)
(***************************************************************************)
\* line 98
TrainingStart(r) ==
    /\ input[r].route = "/training"
    /\ Arrives(r)
    /\ h' = [h EXCEPT ![r].pc = "decode", ![r].request_id = timestamp_millis(now)]
    /\ obs' = Stage(r, "start")
    /\ UNCHANGED <<now, input, tmp, dirs, files, log>>

\* (mutant) the label is only checked to be present
LabelErrorPresenceOnly(label) ==
    IF ~label.some THEN <<BadRequest(<<"Label is required for training data">>)>>
    ELSE <<>>

\* lines 112-125: the label must be present and one of the two values
LabelError(label) ==
    IF ~label.some THEN <<BadRequest(<<"Label is required for training data">>)>>
    ELSE IF label.v # T_match_ready /\ label.v # T_not_match_ready
    THEN <<BadRequest(<<"Label must be either 'match_ready' or 'not_match_ready'">>)>>
    ELSE <<>>

\* lines 104-125: the payload is decoded and the label validated
TrainingDecode(r) ==
    /\ input[r].route = "/training"
    /\ h[r].pc = "decode"
    /\ LET d == parse_multipart(input[r].payload)
       IN  IF ~d.ok
           THEN /\ h' = Finish(r, d.resp)
                /\ obs' = Stage(r, "decode")
           ELSE /\ h' = IF LabelError(d.label) # <<>>
                         THEN Finish(r, LabelError(d.label)[1])
                         ELSE [h EXCEPT ![r].pc = "mkdir",
                                        ![r].image_bytes = d.image_bytes,
                                        ![r].label = d.label.v]
                /\ obs' = [obs EXCEPT ![r].stages = @ \o <<"decode", "validate">>]
    /\ UNCHANGED <<now, input, tmp, dirs, files, log>>

\* lines 130-138: fs::create_dir_all makes training_data and the label directory
CreateDirOk(r) ==
    /\ input[r].route = "/training"
    /\ h[r].pc = "mkdir"
    /\ dirs' = dirs \cup {<<training_dir>>, LabelDir(h[r].label)}
    /\ h' = [h EXCEPT ![r].pc = "name"]
    /\ obs' = Stage(r, "mkdir")
    /\ UNCHANGED <<now, input, tmp, files, log>>

\* lines 134-138: create_dir_all fails, at training_data or at the label directory
CreateDirFail(r) ==
    /\ input[r].route = "/training"
    /\ h[r].pc = "mkdir"
    /\ dirs' \in {dirs, dirs \cup {<<training_dir>>}}
    /\ h' = Finish(r, InternalServerError(<<"Failed to create training directory: ", "e">>))
    /\ obs' = Stage(r, "mkdir")
    /\ UNCHANGED <<now, input, tmp, files, log>>

\* lines 141-143: the filename is made from the clock and the request id
NameFile(r) ==
    /\ input[r].route = "/training"
    /\ h[r].pc = "name"
    /\ h' = [h EXCEPT ![r].pc = "write", ![r].timestamp = FormatTimestamp(now)]
    /\ obs' = Stage(r, "name")
    /\ UNCHANGED <<now, input, tmp, dirs, files, log>>

\* the locals filename and file_path of training_route (lines 142-143)
filename(r) == Filename(h[r].timestamp, h[r].request_id)
file_path(r) == FilePath(LabelDir(h[r].label), filename(r))

\* lines 146-152: the image is written
WriteImageOk(r) ==
    /\ input[r].route = "/training"
    /\ h[r].pc = "write"
    /\ files' = WriteOk(files, file_path(r), h[r].image_bytes)
    /\ h' = [h EXCEPT ![r].pc = "log"]
    /\ obs' = Stage(r, "save")
    /\ UNCHANGED <<now, input, tmp, dirs, log>>

\* (mutant) the failed write is only logged and the handler goes on to the log
WriteImageFailIgnored(r) ==
    /\ input[r].route = "/training"
    /\ h[r].pc = "write"
    /\ files' \in WriteFailed(files, file_path(r), h[r].image_bytes)
    /\ h' = [h EXCEPT ![r].pc = "log"]
    /\ obs' = Stage(r, "save")
    /\ UNCHANGED <<now, input, tmp, dirs, log>>

\* lines 146-150: the write fails and the handler returns
WriteImageFail(r) ==
    /\ input[r].route = "/training"
    /\ h[r].pc = "write"
    /\ files' \in WriteFailed(files, file_path(r), h[r].image_bytes)
    /\ h' = Finish(r, InternalServerError(<<"Failed to write training image: ", "e">>))
    /\ obs' = Stage(r, "save")
    /\ UNCHANGED <<now, input, tmp, dirs, log>>

\* lines 155-162: the audit record
log_entry(r, t) ==
    [timestamp |-> to_rfc3339(t), request_id |-> h[r].request_id, label |-> h[r].label,
     filename |-> filename(r), file_path |-> file_path(r),
     image_size_bytes |-> Len(h[r].image_bytes)]

\* line 166: the record and a newline
log_line(r, t) == << <<"json", log_entry(r, t)>>, <<NL>> >>

\* lines 182-202: the success response
TrainingSaved(r) ==
    Ok([status |-> "success", message |-> "Training data saved successfully",
        filename |-> filename(r), label |-> h[r].label, request_id |-> h[r].request_id])

\* lines 155-202: the record is appended to the log, then the response is made
AppendLogOk(r) ==
    /\ input[r].route = "/training"
    /\ h[r].pc = "log"
    /\ log' = AppendLine(log, log_line(r, now))
    /\ h' = Finish(r, TrainingSaved(r))
    /\ obs' = Stage(r, "audit")
    /\ UNCHANGED <<now, input, tmp, dirs, files>>

\* (mutant) a failure to append to the log fails the request
AppendLogFailIs500(r) ==
    /\ input[r].route = "/training"
    /\ h[r].pc = "log"
    /\ h' = Finish(r, InternalServerError(<<"Failed to write to training log: ", "e">>))
    /\ obs' = [Stage(r, "audit") EXCEPT ![r].log_failed = TRUE]
    /\ UNCHANGED <<now, input, tmp, dirs, files, log>>

\* lines 168-179: opening or writing the log fails; the error is only logged
AppendLogFail(r) ==
    /\ input[r].route = "/training"
    /\ h[r].pc = "log"
    /\ h' = Finish(r, TrainingSaved(r))
    /\ obs' = [Stage(r, "audit") EXCEPT ![r].log_failed = TRUE]
    /\ UNCHANGED <<now, input, tmp, dirs, files, log>>

(***************************************************************************)
(* The clock advances: by a microsecond, or to the next millisecond.       *)
(***************************************************************************)
Tick ==
    /\ \E t \in {now + 1, (timestamp_millis(now) + 1) * UsPerMs} :
          /\ timestamp_millis(t) + (t % UsPerMs) <= MaxTicks
          /\ now' = t
    /\ UNCHANGED <<input, h, tmp, dirs, files, log, obs>>

(***************************************************************************)
(* Inputs.                                                                 *)
(***************************************************************************)
\* what predict.py prints for a match-ready ball, as the parser expects it
L_final_mr == T_FinalPrediction \o <<" ">> \o T_MATCH_READY
L_final_nmr == T_FinalPrediction \o <<" ">> \o T_NOT_MATCH_READY
L_final_other == T_FinalPrediction \o <<" ","U","N","S","U","R","E">>
\* a label that only contains MATCH_READY
L_final_sub == L_final_mr \o <<"I","S","H">>
L_final_conf == L_final_mr \o <<" ">> \o T_Confidence_sp \o <<"0",".","5"," ">>
L_conf == T_Confidence_sp \o <<"0",".","8","7"," ","(","8","7",".","0","%",")">>
L_conf_half == T_Confidence_sp \o <<"0",".","5"," ">>
L_conf_bad == T_Confidence_sp \o <<"h","i","g","h"," ">>
L_conf_end == T_Confidence_sp \o <<"0",".","8","7">>
L_image == T_Image_sp \o <<"b","a","l","l",".","j","p","g">>
\* the line the interface description of the service names
L_pred_mr == T_Prediction_sp \o T_match_ready \o <<";"," ">> \o L_conf_end
L_pred_nmr == T_Prediction_sp \o T_not_match_ready \o <<";"," ">> \o L_conf_half

StdoutLines ==
    {L_final_mr, L_final_nmr, L_final_other, L_final_sub, L_final_conf, L_conf, L_conf_half,
     L_conf_bad, L_conf_end, L_image, L_pred_mr, L_pred_nmr, <<>>}

\* the lines joined, each ended by a newline
RECURSIVE JoinLines(_)
JoinLines(lines) ==
    IF lines = <<>> THEN <<>> ELSE Head(lines) \o <<NL>> \o JoinLines(Tail(lines))

\* the sequences of at most n elements of S
SeqUpTo(S, n) == UNION {[1..k -> S] : k \in 0..n}

Stdouts == {JoinLines(ls) : ls \in SeqUpTo(StdoutLines, MaxLines)} \cup {L_pred_mr}

ImageParts ==
    {Field("image", <<>>), Field("image", <<Chunk(<<>>)>>), Field("image", <<Chunk(<<1>>)>>),
     Field("image", <<Chunk(<<1>>), Chunk(<<2>>)>>), Field("image", <<Chunk(<<1>>), ChunkError>>)}
LabelParts ==
    {Field("label", <<Chunk(T_match_ready)>>), Field("label", <<Chunk(T_not_match_ready)>>),
     Field("label", <<Chunk(<<"m","a","t","c","h","_">>), Chunk(<<"r","e","a","d","y">>)>>),
     Field("label", <<Chunk(T_sideways)>>), Field("label", <<Chunk(T_MATCH_READY)>>),
     Field("label", <<Chunk(T_match_ready \o <<InvalidByte>>)>>),
     Field("label", <<>>), Field("label", <<ChunkError>>)}
OtherParts == {Field("extra", <<Chunk(<<1>>)>>), FrameError}

GoodImage(bytes) == Field("image", <<Chunk(bytes)>>)

\* predict.py as it behaves in the runs with several requests
StdoutGood == JoinLines(<<L_final_mr, L_conf>>)
SmallMocks ==
    {Mock(FALSE, 0, <<>>, <<>>), Mock(TRUE, 0, StdoutGood, <<>>), Mock(TRUE, 1, <<>>, T_boom)}
RichMocks ==
    {Mock(TRUE, 0, out, <<>>) : out \in Stdouts}
    \cup {Mock(TRUE, 1, out, T_boom) : out \in Stdouts}

\* the inputs of request r in the runs with several requests: each request
\* uploads its own image
ManyInputs(r) ==
    {Input("/predict", <<GoodImage(<<r>>)>>, m) : m \in SmallMocks}
    \cup {Input("/training", <<GoodImage(<<r>>), Field("label", <<Chunk(l)>>)>>, NoMock) :
             l \in {T_match_ready, T_not_match_ready}}

\* the inputs of the runs with one request
OneInputs ==
    {Input("/predict", p, m) :
        p \in SeqUpTo(ImageParts \cup OtherParts \cup {Field("label", <<Chunk(T_match_ready)>>)},
                      MaxParts),
        m \in SmallMocks \cup {Mock(TRUE, 0, L_pred_mr, <<>>), Mock(TRUE, 1, StdoutGood, T_boom),
                               Mock(TRUE, 1, <<InvalidByte>>, T_boom \o <<InvalidByte>>),
                               Mock(TRUE, 0, <<InvalidByte, NL, CR>>, <<>>)}}
    \cup {Input("/predict", <<GoodImage(<<1>>)>>, m) : m \in RichMocks}
    \cup {Input("/training", p, NoMock) :
             p \in SeqUpTo(ImageParts \cup LabelParts \cup OtherParts, MaxParts)}

(***************************************************************************)
(* Specifications.                                                         *)
(***************************************************************************)
Started ==
    /\ now = 0
    /\ h = [r \in Req |-> Idle]
    /\ tmp = <<>>
    /\ dirs = {}
    /\ files = <<>>
    /\ log = <<>>
    /\ obs = [r \in Req |-> NoObs]

\* several requests arrive, of either route
Init ==
    /\ Started
    /\ input \in {f \in [Req -> UNION {ManyInputs(r) : r \in Req}] :
                    \A r \in Req : f[r] \in ManyInputs(r)}

\* one request arrives
InitOne ==
    /\ Started
    /\ \E i \in OneInputs : input = [r \in Req |-> IF r = 1 THEN i ELSE NoInput]

\* several requests arrive, all of one route
InitPredict == Init /\ \A r \in Req : input[r].route = "/predict"
InitTraining == Init /\ \A r \in Req : input[r].route = "/training"

NextPredict ==
    \/ \E r \in Req : PredictStart(r)
    \/ \E r \in Req : PredictDecode(r)
    \/ \E r \in Req : WriteTempOk(r)
    \/ \E r \in Req : WriteTempFail(r)
    \/ \E r \in Req : SpawnOk(r)
    \/ \E r \in Req : SpawnFail(r)
    \/ \E r \in Req : ProcessExit(r)
    \/ \E r \in Req : Cleanup(r)
    \/ \E r \in Req : CleanupSpawnFailed(r)

NextTraining ==
    \/ \E r \in Req : TrainingStart(r)
    \/ \E r \in Req : TrainingDecode(r)
    \/ \E r \in Req : CreateDirOk(r)
    \/ \E r \in Req : CreateDirFail(r)
    \/ \E r \in Req : NameFile(r)
    \/ \E r \in Req : WriteImageOk(r)
    \/ \E r \in Req : WriteImageFail(r)
    \/ \E r \in Req : AppendLogOk(r)
    \/ \E r \in Req : AppendLogFail(r)

Next == NextPredict \/ NextTraining \/ Tick

\* requests of both routes, handled concurrently
Spec == Init /\ [][Next]_vars
\* concurrent /predict requests
SpecPredict == InitPredict /\ [][NextPredict \/ Tick]_vars
\* concurrent /training requests
SpecTraining == InitTraining /\ [][NextTraining \/ Tick]_vars
\* one request of either route, over all modelled payloads and process outputs;
\* the clock, which a handler reads only for its request id and its file name,
\* stands still here and advances in the runs with several requests
SpecOne == InitOne /\ [][NextPredict \/ NextTraining]_vars

\* the inputs of request r in the runs of two handlers to completion: those of
\* ManyInputs and one that fails at each of the early stages
PipelineInputs(r) ==
    ManyInputs(r)
    \cup {Input("/predict", <<>>, Mock(TRUE, 0, StdoutGood, <<>>)),
          Input("/training", <<GoodImage(<<r>>), Field("label", <<Chunk(T_sideways)>>)>>, NoMock),
          Input("/training", <<Field("label", <<Chunk(T_match_ready)>>)>>, NoMock)}

\* two requests arrive, of either route
InitTwo ==
    /\ Started
    /\ \E i1 \in PipelineInputs(1), i2 \in PipelineInputs(2) :
          input = [r \in Req |-> IF r = 1 THEN i1 ELSE IF r = 2 THEN i2 ELSE NoInput]

\* the steps of the handler of request r up to the removal of the scratch file
Handler(r) ==
    \/ PredictStart(r) \/ PredictDecode(r) \/ WriteTempOk(r) \/ WriteTempFail(r)
    \/ SpawnOk(r) \/ SpawnFail(r) \/ ProcessExit(r) \/ CleanupSpawnFailed(r)
    \/ TrainingStart(r) \/ TrainingDecode(r) \/ CreateDirOk(r) \/ CreateDirFail(r)
    \/ NameFile(r) \/ WriteImageOk(r) \/ WriteImageFail(r)
    \/ AppendLogOk(r) \/ AppendLogFail(r)

\* two handlers that the runtime runs to completion: a handler that can take a
\* step takes one, and the external process, once started, exits.  Cleanup(r)
\* is enabled exactly when the handler is at "cleanup" and always leaves it, so
\* its weak fairness is: the handler is not at "cleanup" forever.
SpecFair ==
    /\ InitTwo
    /\ [][NextPredict \/ NextTraining]_vars
    /\ \A r \in Req : WF_vars(Handler(r))
    /\ \A r \in Req : []<>(h[r].pc # "cleanup")

(***************************************************************************)
(* Properties.                                                             *)
(***************************************************************************)
Done(r) == h[r].pc = "done"
InFlight(r) == h[r].pc \notin {"idle", "done"}
Predict(r) == input[r].route = "/predict"
Training(r) == input[r].route = "/training"
NothingPersisted == dirs = {} /\ files = <<>> /\ log = <<>>

\* C1: once a /predict request has returned, on any exit path, the scratch file
\* /tmp/cricket_ball_<request_id>.jpg of that request is not on disk, unless the
\* removal itself failed.
C1_ScratchGoneAfterResponse ==
    \A r \in Req :
        (Predict(r) /\ Done(r) /\ ~obs[r].rm_failed)
            => ~Exists(tmp, TempPath(h[r].request_id))

\* C2: two /predict requests in flight at the same time never have the same
\* request id (and so never the same scratch path).
C2_DistinctRequestIds ==
    \A r1, r2 \in Req :
        (r1 # r2 /\ Predict(r1) /\ Predict(r2) /\ InFlight(r1) /\ InFlight(r2))
            => /\ h[r1].request_id # h[r2].request_id
               /\ TempPath(h[r1].request_id) # TempPath(h[r2].request_id)

\* C3: when the external process of a request runs, the scratch file at its path
\* exists and holds exactly the image bytes uploaded in that request.
C3_ProcessReadsOwnImage ==
    \A r \in Req :
        (Predict(r) /\ obs[r].seen.read)
            => obs[r].seen.found /\ obs[r].seen.data = h[r].image_bytes

\* the result the interface description promises for a stdout line
\* "Prediction: <label>; Confidence: <float>"
PromisedResult(stdout) ==
    IF stdout \in {L_pred_mr, L_pred_mr \o <<NL>>}
    THEN [prediction |-> "match_ready", confidence |-> [neg |-> FALSE, m |-> 87, e |-> 2]]
    ELSE [prediction |-> "not_match_ready", confidence |-> [neg |-> FALSE, m |-> 5, e |-> 1]]

\* C4: for a non-empty image, when the process exits 0 with stdout
\* "Prediction: match_ready; Confidence: 0.87", /predict returns 200 with the body
\* {"prediction":"match_ready","confidence":0.87}; likewise for the other label.
C4_PredictionLineParsed ==
    \A r \in Req :
        (/\ Predict(r) /\ Done(r) /\ obs[r].seen.read
         /\ h[r].image_bytes # <<>>
         /\ h[r].output.code = 0
         /\ h[r].output.stdout \in {L_pred_mr, L_pred_mr \o <<NL>>, L_pred_nmr \o <<NL>>})
            => h[r].resp = Ok(PromisedResult(h[r].output.stdout))

\* C5: when the external process exits with a non-zero status, the response is
\* 500 "Prediction failed: <stderr>", whatever stdout held, and the parser is not run.
C5_NonZeroExitFails ==
    \A r \in Req :
        (Predict(r) /\ Done(r) /\ obs[r].seen.read /\ input[r].mock.code # 0)
            => /\ h[r].resp.status = 500
               /\ h[r].resp.body = <<"Prediction failed: ", from_utf8_lossy(input[r].mock.stderr)>>
               /\ ~Ran(r, "parse")

\* a request whose process failed although it had printed a result
C5_Witness ==
    \E r \in Req :
        /\ Predict(r) /\ Done(r) /\ obs[r].seen.read
        /\ input[r].mock.code # 0
        /\ input[r].mock.stdout = StdoutGood
        /\ input[r].mock.stderr = T_boom
        /\ h[r].resp = InternalServerError(<<"Prediction failed: ", T_boom>>)

\* the label values a payload carries, one per "label" part: the data of the
\* part's chunks, read as text
RECURSIVE ChunkData(_)
ChunkData(chunks) ==
    IF chunks = <<>> THEN <<>> ELSE Head(chunks).data \o ChunkData(Tail(chunks))
LabelValues(payload) ==
    {from_utf8_lossy(ChunkData(payload[i].chunks)) :
        i \in {j \in 1..Len(payload) : payload[j].ok /\ payload[j].name = "label"}}
\* the payload has no label, or none of its labels is one of the two values
BadLabel(payload) == LabelValues(payload) \cap {T_match_ready, T_not_match_ready} = {}
\* some chunk of the payload fails to be read
HasChunkError(payload) ==
    \E i \in 1..Len(payload) : \E k \in 1..Len(payload[i].chunks) : ~payload[i].chunks[k].ok

\* C6 as stated: a /training request whose label is absent or not one of the two
\* values returns 400 and creates no directory, no image file and no log line.
C6_BadLabelIs400 ==
    \A r \in Req :
        (Training(r) /\ Done(r) /\ BadLabel(input[r].payload))
            => h[r].resp.status = 400 /\ NothingPersisted

\* C6 amended: such a request creates no directory, no image file and no log
\* line, and returns 400, or 500 "Read error" when a chunk of its payload
\* fails to be read.
C6_BadLabelRejected ==
    \A r \in Req :
        (Training(r) /\ Done(r) /\ BadLabel(input[r].payload))
            => /\ NothingPersisted
               /\ \/ h[r].resp.status = 400
                  \/ h[r].resp = ReadError /\ HasChunkError(input[r].payload)

\* a request with an image and the label "sideways" was rejected
C6_Witness ==
    \E r \in Req :
        /\ Training(r) /\ Done(r)
        /\ input[r].payload = <<GoodImage(<<1>>), Field("label", <<Chunk(T_sideways)>>)>>
        /\ h[r].resp =
             BadRequest(<<"Label must be either 'match_ready' or 'not_match_ready'">>)

\* the log is made of complete lines: a record, then a newline
CompleteLines ==
    /\ Len(log) % 2 = 0
    /\ \A i \in 1..Len(log) : IF i % 2 = 1 THEN log[i][1] = "json" ELSE log[i] = <<NL>>
\* the records of the log that request r wrote
RecordsOf(r) ==
    {i \in 1..Len(log) :
        /\ log[i][1] = "json"
        /\ log[i][2].request_id = h[r].request_id
        /\ log[i][2].file_path = file_path(r)
        /\ log[i][2].label = h[r].label
        /\ log[i][2].image_size_bytes = Len(h[r].image_bytes)}
Saved(r) == Training(r) /\ Ran(r, "save") /\ h[r].pc \in {"log", "done"} /\ h[r].resp.status # 500
Logged(r) == Training(r) /\ Done(r) /\ Ran(r, "audit") /\ ~obs[r].log_failed

C8_DistinctFilePaths ==
    \A r1, r2 \in Req :
        (/\ r1 # r2 /\ Training(r1) /\ Training(r2)
         /\ Done(r1) /\ Done(r2)
         /\ h[r1].resp.status = 200 /\ h[r2].resp.status = 200)
            => file_path(r1) # file_path(r2)

AllDone == \A r \in Req : Done(r)
Records == {i \in 1..Len(log) : log[i][1] = "json"}
IsPrefix(a, b) == Len(a) <= Len(b) /\ SubSeq(b, 1, Len(a)) = a

\* C9 as stated: after the requests have finished, the number of records in the
\* log equals the number of requests that returned 200.
C9_RecordPerSuccess ==
    AllDone => Cardinality(Records) = Cardinality({r \in Req : h[r].resp.status = 200})

\* C9 amended: the log is append-only (no step changes or removes what is in
\* it), and after the requests have finished the number of records equals the
\* number of requests that returned 200 and whose append to the log did not fail.
C9_AppendOnlyLog ==
    /\ [](AllDone => Cardinality(Records) =
            Cardinality({r \in Req : h[r].resp.status = 200 /\ ~obs[r].log_failed}))
    /\ [][IsPrefix(log, log')]_vars

\* one submission was logged, another returned 200 although its append failed
C9_Witness ==
    /\ AllDone
    /\ \E r1, r2 \in Req :
          /\ Logged(r1) /\ h[r1].resp.status = 200
          /\ obs[r2].log_failed /\ h[r2].resp.status = 200
    /\ Cardinality(Records) = 1

\* the part names a route allows
Allowed(route) == IF route = "/predict" THEN {"image"} ELSE {"image", "label"}
\* the whole stream is read: no framing error, no read error, no part of another name
FullyConsumed(route, payload) ==
    /\ ~HasChunkError(payload)
    /\ \A i \in 1..Len(payload) : payload[i].ok /\ payload[i].name \in Allowed(route)
\* no image part of the payload carries a byte
NoImageBytes(payload) ==
    \A i \in 1..Len(payload) :
        (payload[i].ok /\ payload[i].name = "image") => ChunkData(payload[i].chunks) = <<>>

\* C10: a request whose image buffer is empty once the whole stream was read is
\* answered 400 "No image data received", whatever the process would do; no
\* scratch file is written, the process is not started, nothing is persisted.
C10_EmptyImageRejected ==
    \A r \in Req :
        (/\ Done(r)
         /\ FullyConsumed(input[r].route, input[r].payload)
         /\ NoImageBytes(input[r].payload))
            => /\ h[r].resp = BadRequest(<<"No image data received">>)
               /\ \A st \in {"store", "invoke", "discard", "parse", "mkdir", "save", "audit"} :
                     ~Ran(r, st)
               /\ ~obs[r].seen.read
               /\ tmp = <<>>
               /\ NothingPersisted

\* a /predict request with a zero-byte image part was rejected although the
\* process would have run and exited 0
C10_Witness ==
    \E r \in Req :
        /\ Predict(r) /\ Done(r)
        /\ input[r].payload = <<Field("image", <<Chunk(<<>>)>>)>>
        /\ input[r].mock.spawn_ok /\ input[r].mock.code = 0
        /\ h[r].resp = NoImageData

\* the first item of the payload that is not a cleanly read part of an allowed
\* name: everything before it was read by the decoder without an error
FirstOffending(route, payload) ==
    LET bad == {i \in 1..Len(payload) :
                   \/ ~payload[i].ok
                   \/ payload[i].name \notin Allowed(route)
                   \/ \E k \in 1..Len(payload[i].chunks) : ~payload[i].chunks[k].ok}
    IN  IF bad = {} THEN 0 ELSE CHOOSE i \in bad : \A j \in bad : i <= j
\* the decoder meets a part whose name is outside the allowed set
MeetsUnexpected(route, payload) ==
    /\ FirstOffending(route, payload) > 0
    /\ payload[FirstOffending(route, payload)].ok
    /\ payload[FirstOffending(route, payload)].name \notin Allowed(route)

\* C11: when the decoder meets a part whose name is outside the allowed set
\* ({image} for /predict, {image, label} for /training), the response is 400
\* "Unexpected field: <name>" and no stage after the decode runs: nothing is
\* written, the process is not started, nothing is persisted.
C11_UnexpectedFieldIs400 ==
    \A r \in Req :
        (Done(r) /\ MeetsUnexpected(input[r].route, input[r].payload))
            => /\ h[r].resp =
                    BadRequest(<<"Unexpected field: ",
                       input[r].payload[FirstOffending(input[r].route, input[r].payload)].name>>)
               /\ obs[r].stages = <<"start", "decode">>
               /\ ~obs[r].seen.read
               /\ tmp = <<>>
               /\ NothingPersisted

\* a /predict request with an image part followed by a "label" part was rejected
C11_Witness ==
    \E r \in Req :
        /\ Predict(r) /\ Done(r)
        /\ input[r].payload = <<Field("image", <<Chunk(<<1>>)>>),
                                Field("label", <<Chunk(T_match_ready)>>)>>
        /\ h[r].resp = BadRequest(<<"Unexpected field: ", "label">>)

\* a /predict request whose process exited 0: its stdout went through the parser
Parsed(r) == Predict(r) /\ Done(r) /\ Ran(r, "parse")
\* the text handed to the parser, its lines, and the object returned
ParsedText(r) == from_utf8_lossy(input[r].mock.stdout)
ParsedLines(r) == Lines(ParsedText(r))
Result(r) == h[r].resp.body[2]
Default == [prediction |-> "unknown", confidence |-> Zero]

T_Prediction == SubSeq(T_FinalPrediction, 7, 17)
\* a line that could be read as a prediction: the marker and the name of a label
LooksLikePrediction(line) ==
    /\ Contains(line, T_Prediction)
    /\ Contains(line, T_MATCH_READY) \/ Contains(line, T_match_ready)
\* a line that could be read as a confidence: the marker and a digit
LooksLikeConfidence(line) ==
    /\ Contains(line, T_Confidence)
    /\ \E i \in 1..Len(line) : IsDigit(line[i])

\* C12: the parser returns a result for every stdout text; the prediction is
\* match_ready, not_match_ready or unknown; a text without a line that can be
\* read as a prediction or as a confidence gives {unknown, 0.0}.
C12_ParserTotal ==
    \A r \in Req :
        Parsed(r)
            => /\ h[r].resp.status = 200
               /\ h[r].resp = Ok(parse_prediction_output(ParsedText(r)))
               /\ DOMAIN Result(r) = {"prediction", "confidence"}
               /\ Result(r).prediction \in {"match_ready", "not_match_ready", "unknown"}
               /\ (\A i \in 1..Len(ParsedLines(r)) :
                       /\ ~LooksLikePrediction(ParsedLines(r)[i])
                       /\ ~LooksLikeConfidence(ParsedLines(r)[i]))
                    => Result(r) = Default

\* stdout held a prediction marker and a confidence marker, both without a
\* usable value, and the result is the default
C12_Witness ==
    \E r \in Req :
        /\ Parsed(r)
        /\ input[r].mock.stdout = JoinLines(<<L_final_other, L_conf_bad>>)
        /\ h[r].resp = Ok(Default)

\* the text without its leading blanks
RECURSIVE SkipBlanks(_)
SkipBlanks(s) == IF s # <<>> /\ Head(s) = " " THEN SkipBlanks(Tail(s)) ELSE s
\* the text up to its first blank or ";"
RECURSIVE Token(_)
Token(s) == IF s = <<>> \/ Head(s) \in {" ", ";"} THEN <<>> ELSE <<Head(s)>> \o Token(Tail(s))
\* the label value of a prediction line: the word after "Prediction:"
LabelValue(line) ==
    LET p == Find(line, T_Prediction)
    IN  IF ~p.some THEN <<>> ELSE Token(SkipBlanks(SliceFrom(line, p.at + Len(T_Prediction))))
\* the two enum values, as the interface and as predict.py spell them
ExactLabels == {T_match_ready, T_not_match_ready, T_MATCH_READY, T_NOT_MATCH_READY}

\* C13: the parser adopts a label only from a prediction line whose label value
\* is exactly one of the two enum values: when no line of stdout has such a
\* label value, the prediction stays "unknown".
C13_OnlyExactLabelAdopted ==
    \A r \in Req :
        (/\ Parsed(r)
         /\ \A i \in 1..Len(ParsedLines(r)) : LabelValue(ParsedLines(r)[i]) \notin ExactLabels)
            => Result(r).prediction = "unknown"

\* the value of `field` that the parser takes from this line alone, starting
\* from the locals `st`
Taken(st, line, field) == ParseLine(st, line)[field]
\* the line sets `field`: the value after the line does not depend on the value before
ProbePrediction == [ParserInit EXCEPT !.prediction = "probe"]
ProbeConfidence == [ParserInit EXCEPT !.confidence = [neg |-> TRUE, m |-> 1, e |-> 0]]
YieldsPrediction(line) ==
    Taken(ParserInit, line, "prediction") = Taken(ProbePrediction, line, "prediction")
YieldsConfidence(line) ==
    Taken(ParserInit, line, "confidence") = Taken(ProbeConfidence, line, "confidence")
\* the last element of a set of line numbers, 0 when there is none
Last(S) == IF S = {} THEN 0 ELSE CHOOSE i \in S : \A j \in S : j <= i
LastPrediction(lines) == Last({i \in 1..Len(lines) : YieldsPrediction(lines[i])})
LastConfidence(lines) == Last({i \in 1..Len(lines) : YieldsConfidence(lines[i])})

\* C18: the returned prediction is the one the parser takes from the last line
\* that yields a label, and the returned confidence the one it takes from the
\* last line that yields a confidence, whatever the other field's lines are;
\* a field no line yields keeps its default.
C18_LastLineWins ==
    \A r \in Req :
        Parsed(r)
            => LET lines == ParsedLines(r)
                   p == LastPrediction(lines)
                   c == LastConfidence(lines)
               IN  /\ Result(r).prediction =
                        IF p = 0 THEN "unknown" ELSE Taken(ParserInit, lines[p], "prediction")
                   /\ Result(r).confidence =
                        IF c = 0 THEN Zero ELSE Taken(ParserInit, lines[c], "confidence")

\* two confidence lines with different values: the second one is returned
C18_Witness ==
    \E r \in Req :
        /\ Parsed(r)
        /\ input[r].mock.stdout = JoinLines(<<L_conf, L_conf_half>>)
        /\ Result(r).confidence = [neg |-> FALSE, m |-> 5, e |-> 1]
        /\ Result(r).confidence # Taken(ParserInit, L_conf, "confidence")

\* the "Final Prediction:" lines of stdout that name a label
FinalLines(lines) ==
    {i \in 1..Len(lines) :
        Contains(lines[i], T_FinalPrediction) /\ Contains(lines[i], T_MATCH_READY)}

\* C19: a "Final Prediction:" line naming NOT_MATCH_READY gives not_match_ready,
\* one naming MATCH_READY (and not NOT_MATCH_READY) gives match_ready.
C19_BothLabelsReachable ==
    \A r \in Req :
        (Parsed(r) /\ FinalLines(ParsedLines(r)) # {})
            => LET line == ParsedLines(r)[Last(FinalLines(ParsedLines(r)))]
               IN  Result(r).prediction =
                     IF Contains(line, T_NOT_MATCH_READY) THEN "not_match_ready"
                     ELSE "match_ready"

WriteTempFailed == InternalServerError(<<"Failed to write temporary file: ", "e">>)

\* C14: the external process of a /predict request is started only after the
\* decode returned a non-empty image and the scratch file was written with it;
\* when the scratch write fails the response is 500 and the process is never
\* started.
C14_ProcessAfterStore ==
    \A r \in Req :
        Predict(r)
            => /\ (Ran(r, "invoke") \/ h[r].pc = "spawn")
                    => /\ SubSeq(obs[r].stages, 1, 3) = <<"start", "decode", "store">>
                       /\ parse_multipart_predict(input[r].payload).ok
                       /\ h[r].image_bytes = parse_multipart_predict(input[r].payload).image_bytes
                       /\ h[r].image_bytes # <<>>
                       /\ h[r].resp # WriteTempFailed
               /\ h[r].pc = "spawn"
                    => /\ Exists(tmp, TempPath(h[r].request_id))
                       /\ tmp[TempPath(h[r].request_id)] = h[r].image_bytes
               /\ h[r].resp = WriteTempFailed
                    => /\ h[r].resp.status = 500
                       /\ obs[r].stages = <<"start", "decode", "store">>
                       /\ ~Ran(r, "invoke")
                       /\ ~obs[r].seen.read

\* the scratch write of a request failed, for which the process would have
\* started and exited 0
C14_Witness ==
    \E r \in Req :
        /\ Predict(r) /\ Done(r)
        /\ input[r].mock.spawn_ok /\ input[r].mock.code = 0
        /\ h[r].resp = WriteTempFailed
        /\ ~Ran(r, "invoke")

\* the response of a /predict request as its decode result and the result of
\* the external process alone determine it
Outcome(payload, mock) ==
    IF ~mock.spawn_ok THEN InternalServerError(<<"Failed to execute prediction: ", "e">>)
    ELSE IF mock.code # 0
    THEN InternalServerError(<<"Prediction failed: ", from_utf8_lossy(mock.stderr)>>)
    ELSE Ok(parse_prediction_output(from_utf8_lossy(mock.stdout)))

\* C17: the response of a /predict request that reached the removal of its
\* scratch file is the same whether the removal succeeds or fails: it is
\* determined by the decode result and the external-process result alone.
C17_DiscardFailureSwallowed ==
    \A r \in Req :
        (Predict(r) /\ Done(r) /\ Ran(r, "discard"))
            => h[r].resp = Outcome(input[r].payload, input[r].mock)

\* the removal failed and the request returned the prediction all the same
C17_Witness ==
    \E r \in Req :
        /\ Predict(r) /\ Done(r) /\ Ran(r, "discard")
        /\ obs[r].rm_failed
        /\ input[r].mock.stdout = StdoutGood
        /\ h[r].resp.status = 200
        /\ h[r].resp.body[2].prediction = "match_ready"

WriteImageFailed == InternalServerError(<<"Failed to write training image: ", "e">>)

\* C15: a /training request whose image write fails returns 500 and appends
\* nothing to the log; every record of the log was appended by a request after
\* its own image write had succeeded, and names a file that is on disk.
C15_NoRecordForFailedSave ==
    /\ \A r \in Req :
          (Training(r) /\ h[r].resp = WriteImageFailed)
              => /\ h[r].resp.status = 500
                 /\ obs[r].stages = <<"start", "decode", "validate", "mkdir", "name", "save">>
                 /\ ~Ran(r, "audit")
    /\ \A r \in Req : Ran(r, "audit") => Ran(r, "save") /\ h[r].resp # WriteImageFailed
    /\ \A i \in Records :
          /\ \E r \in Req : Logged(r) /\ i \in RecordsOf(r)
          /\ Exists(files, log[i][2].file_path)
    /\ Cardinality(Records) = Cardinality({r \in Req : Logged(r)})

\* the write of one submission failed while another one was saved and logged:
\* the log holds the one record
C15_Witness ==
    \E r1, r2 \in Req :
        /\ Training(r1) /\ Done(r1) /\ h[r1].resp = WriteImageFailed
        /\ Logged(r2)
        /\ Cardinality(Records) = 1
        /\ Len(log) = 2

\* C16: a /training request whose append to the log failed returns 200 with the
\* success payload (filename, label, request id), and its image file is still
\* on disk, with the bytes it wrote unless another request wrote the same path.
C16_LogFailureNotFatal ==
    \A r \in Req :
        (Training(r) /\ Done(r) /\ obs[r].log_failed)
            => /\ h[r].resp.status = 200
               /\ h[r].resp = TrainingSaved(r)
               /\ h[r].resp.body[2].filename = filename(r)
               /\ h[r].resp.body[2].label = h[r].label
               /\ h[r].resp.body[2].request_id = h[r].request_id
               /\ Exists(files, file_path(r))
               /\ (\A q \in Req \ {r} : ~(Ran(q, "save") /\ file_path(q) = file_path(r)))
                    => files[file_path(r)] = h[r].image_bytes

\* the append of a submission failed: the log is empty, the response is 200 and
\* the image is on disk
C16_Witness ==
    \E r \in Req :
        /\ Training(r) /\ Done(r) /\ obs[r].log_failed
        /\ log = <<>>
        /\ h[r].resp.status = 200
        /\ Exists(files, file_path(r))
        /\ files[file_path(r)] = h[r].image_bytes

\* the stages of the two pipelines, in the order of the handlers
PredictStages == <<"start", "decode", "store", "invoke", "discard", "parse">>
TrainingStages == <<"start", "decode", "validate", "mkdir", "name", "save", "audit">>
StagesOf(r) == IF Predict(r) THEN PredictStages ELSE TrainingStages

\* the number of stages that have run when a request ends with this response:
\* all of them for 200, otherwise those up to the one that failed (and, in
\* /predict, the removal of the scratch file once it was written and the process
\* was asked for)
StagesRun(route, resp) ==
    IF route = "/predict"
    THEN IF resp.status = 200 THEN 6
         ELSE IF resp.body[1] \in {"Prediction failed: ", "Failed to execute prediction: "} THEN 5
         ELSE IF resp = WriteTempFailed THEN 3
         ELSE 2
    ELSE IF resp.status = 200 THEN 7
         ELSE IF resp = WriteImageFailed THEN 6
         ELSE IF resp.body[1] = "Failed to create training directory: " THEN 4
         ELSE IF resp.body[1] \in {"Label is required for training data",
                                   "Label must be either 'match_ready' or 'not_match_ready'"}
              THEN 3
         ELSE 2

Active(r) == input[r].route # "none"

\* C20: the stages of a request run in the order of its pipeline, each at most
\* once; a request that ends with a failure ran no stage after the one that
\* failed (except the removal of the scratch file in /predict); a response,
\* once made, is never changed; and every request, its external process
\* exiting, ends with one response of status 200, 400 or 500.
C20_PipelineInOrder ==
    /\ [](\A r \in Req :
            /\ IsPrefix(obs[r].stages, StagesOf(r))
            /\ Done(r) <=> h[r].resp # NoResponse
            /\ Done(r) => /\ h[r].resp.status \in {200, 400, 500}
                          /\ Len(obs[r].stages) = StagesRun(input[r].route, h[r].resp))
    /\ [][\A r \in Req : Done(r) => (h'[r] = h[r] /\ obs'[r] = obs[r])]_vars
    /\ \A r \in Req : [](Active(r) => <>Done(r))

\* a /predict request that ran all its stages and a /training request that
\* stopped at the validation of its label have both ended
C20_Witness ==
    \E r1, r2 \in Req :
        /\ Predict(r1) /\ Done(r1) /\ h[r1].resp.status = 200
        /\ obs[r1].stages = PredictStages
        /\ Training(r2) /\ Done(r2) /\ h[r2].resp.status = 400
        /\ obs[r2].stages = <<"start", "decode", "validate">>
====
